---- MODULE Spec2Model ----
(***************************************************************************)
(* Model of main.py: the harvest of arXiv links from liked tweets.         *)
(*   get_tweets -> read_cache -> for each new link: download_arvix_pdf     *)
(*   (get_arvix_title, then the PDF request and the streamed write)        *)
(*   -> save_cache.                                                        *)
(* Strings are sequences of one-character strings, so that Python's `in`   *)
(* and str.replace are computed as Python computes them.                   *)
(***************************************************************************)
EXTENDS Integers, Sequences, FiniteSets, TLC

(* ------------------------------ bounds -------------------------------- *)
\* number of runs of main that a behaviour starts
MaxRuns == 2

\* number of pieces an expanded url given to the extractor alone is made of
MaxChunks == 4

\* blocks in the body of a PDF
NChunks == 2

\* number of liked tweets a run retrieves when two processes run side by side
MaxConcTweets == 1

\* MAX_TWEETS of settings.ini: the number of liked tweets one run retrieves
MAX_TWEETS == 2

(* ------------------------------ strings ------------------------------- *)
S_arxiv == <<"a","r","x","i","v">>
S_pdf   == <<"p","d","f">>
S_dotpdf == <<".","p","d","f">>
S_abs   == <<"a","b","s">>

\* s[i..] starts with pat
MatchAt(s, pat, i) ==
    /\ i + Len(pat) - 1 <= Len(s)
    /\ \A k \in 1..Len(pat) : s[i + k - 1] = pat[k]

\* Python: pat in s
Contains(s, pat) == \E i \in 1..(Len(s) - Len(pat) + 1) : MatchAt(s, pat, i)

RECURSIVE ReplaceFrom(_, _, _, _)
ReplaceFrom(s, old, new, i) ==
    IF i > Len(s) THEN <<>>
    ELSE IF MatchAt(s, old, i)
         THEN new \o ReplaceFrom(s, old, new, i + Len(old))
         ELSE <<s[i]>> \o ReplaceFrom(s, old, new, i + 1)

\* Python: s.replace(old, new), every non-overlapping occurrence, left to right
Replace(s, old, new) == ReplaceFrom(s, old, new, 1)

(* --------------------------- the feed's URLs --------------------------- *)
U_abs1  == <<"a","r","x","i","v",".","o","r","g","/","a","b","s","/","1",".","2">>
U_pdf1  == <<"a","r","x","i","v",".","o","r","g","/","p","d","f","/","1",".","2",".","p","d","f">>
U_pdf1n == <<"a","r","x","i","v",".","o","r","g","/","p","d","f","/","1",".","2">>
U_abs2  == <<"a","r","x","i","v",".","o","r","g","/","a","b","s","/","3">>
U_pdf2  == <<"a","r","x","i","v",".","o","r","g","/","p","d","f","/","3",".","p","d","f">>
U_other == <<"x",".","o","r","g","/","p","d","f","/","3",".","p","d","f">>
U_list  == <<"a","r","x","i","v",".","o","r","g","/","l","i","s","t">>

\* a liked tweet is the set of its expanded urls (tweet.entities["urls"])
Items == { {U_pdf1, U_pdf1n}, {U_abs1}, {U_abs2, U_other}, {U_pdf2}, {U_list}, {U_other} }

\* what tweepy.Cursor(TWITTER_API.favorites).items(MAX_TWEETS) can return
Feeds == { f \in SUBSET Items : Cardinality(f) <= MAX_TWEETS }

(* ------------------------------ extractor ------------------------------ *)
\* the rewrite without the removal of the ".pdf" extension
NormalizeKeepsExt(full_url) ==
    IF Contains(full_url, S_pdf) THEN Replace(full_url, S_pdf, S_abs) ELSE full_url

\* the rewrite without the change of "pdf" into "abs"
NormalizeOnlyExt(full_url) ==
    IF Contains(full_url, S_pdf) THEN Replace(full_url, S_dotpdf, <<>>) ELSE full_url

\* the rewrite of one expanded url that contains "arxiv"
Normalize(full_url) ==
    IF Contains(full_url, S_pdf)
    THEN Replace(Replace(full_url, S_dotpdf, <<>>), S_pdf, S_abs)
    ELSE full_url

\* parse_urls without the test for "arxiv"
parse_urls_all(tweet) == { Normalize(u) : u \in tweet }

parse_urls(tweet) == { Normalize(u) : u \in { v \in tweet : Contains(v, S_arxiv) } }

get_tweets(feed) == UNION { parse_urls(t) : t \in feed }

\* the downloader's rewrite of the link to the url of the file
pdf_dl_link(arvix_link) == Replace(arvix_link, S_abs, S_pdf)

(* ------------------------------- state -------------------------------- *)
Procs == {1, 2}          \* processes that may run main against CACHE_PATH
Titles == {"T1", "T2"}   \* titles an abstract page can carry

VARIABLES
    pc,                \* where each process is in main
    feed,              \* the liked tweets the cursor returned to the run
    recent_tweet_set,  \* main: recent_tweet_set
    cached_tweet_set,  \* main: cached_tweet_set
    new_tweets,        \* main: new_tweets
    todo,              \* links the for loop has not reached yet
    cur,               \* main: new_tweet, the link being downloaded
    title,             \* download_arvix_pdf: title
    pos,               \* download_arvix_pdf: chunks given to f.write so far
    flushed,           \* download_arvix_pdf: chunks that f has put in the file
    calls,             \* the network requests of the run, in order
    loaded,            \* what read_cache returned to the run
    succ,              \* links for which download_arvix_pdf returned True in the run
    failed,            \* links whose attempt in the run failed
    prev,              \* how the process's previous run ended
    raised,            \* the exception that ended the run, "none" if none did
    crash_pc,          \* where the process was when it was killed
    cache_folder,      \* whether the directory CACHE_FOLDER is there
    cache_file,        \* the file at CACHE_PATH
    pdf_files,         \* the files <pdf_folder_path>/<title>.pdf
    everTrue,          \* links for which download_arvix_pdf has ever returned True
    asserted,          \* some run has ended on the assertion of get_arvix_title
    runs,              \* runs of main started so far
    url,               \* an expanded url handed to parse_urls on its own
    keys,              \* parse_urls of the tweet that holds url alone
    rekeys,            \* parse_urls applied to the links of keys
    dls,               \* pdf_dl_link of the links of keys
    backs,             \* parse_urls applied to the urls of dls
    upc                \* how far the rewrites of url have gone

mainVars == << pc, feed, recent_tweet_set, cached_tweet_set, new_tweets, todo, cur,
               title, pos, flushed, calls, loaded, succ, failed, prev, raised,
               crash_pc, cache_folder, cache_file, pdf_files, everTrue, asserted,
               runs >>

urlVars == << url, keys, rekeys, dls, backs, upc >>

vars == << mainVars, urlVars >>

runVars == << feed, recent_tweet_set, cached_tweet_set, new_tweets, todo, cur,
              title, pos, flushed, calls, loaded, succ, failed >>

NoLink == <<>>
NoFile == [state |-> "none", body |-> <<>>]
File(body) == [state |-> "file", body |-> body]
Absent == [kind |-> "absent", content |-> {}]
Truncated == [kind |-> "truncated", content |-> {}]
Record(s) == [kind |-> "record", content |-> s]
NoPrev == [ended |-> "none", recent |-> {}, new |-> {}, succ |-> {}, failed |-> {}]

Ended == {"done", "aborted", "crashed"}

MainInit ==
    /\ pc = [p \in Procs |-> "idle"]
    /\ feed = [p \in Procs |-> {}]
    /\ recent_tweet_set = [p \in Procs |-> {}]
    /\ cached_tweet_set = [p \in Procs |-> {}]
    /\ new_tweets = [p \in Procs |-> {}]
    /\ todo = [p \in Procs |-> {}]
    /\ cur = [p \in Procs |-> NoLink]
    /\ title = [p \in Procs |-> "T1"]
    /\ pos = [p \in Procs |-> 0]
    /\ flushed = [p \in Procs |-> 0]
    /\ calls = [p \in Procs |-> <<>>]
    /\ loaded = [p \in Procs |-> {}]
    /\ succ = [p \in Procs |-> {}]
    /\ failed = [p \in Procs |-> {}]
    /\ prev = [p \in Procs |-> NoPrev]
    /\ raised = [p \in Procs |-> "none"]
    /\ crash_pc = [p \in Procs |-> "none"]
    /\ cache_folder = FALSE
    /\ cache_file = Absent
    /\ pdf_files = [t \in Titles |-> NoFile]
    /\ everTrue = {}
    /\ asserted = FALSE
    /\ runs = 0

\* no url has been handed to parse_urls on its own
UrlIdle ==
    /\ url = NoLink
    /\ keys = {}
    /\ rekeys = {}
    /\ dls = {}
    /\ backs = {}
    /\ upc = "idle"

Init == MainInit /\ UrlIdle

(* ------------------------------- store -------------------------------- *)
\* a read_cache that forgets the record
read_cache_forgets(file) == {}

\* read_cache, when pickle.load can read the file (or there is none)
read_cache(file) == IF file.kind = "record" THEN file.content ELSE {}

\* new_tweets without the difference
NewTweetsAll(recent, cached) == recent

\* main, line 129
NewTweets(recent, cached) == recent \ cached

(* ------------------------------- main --------------------------------- *)
\* a run of main starts: get_tweets()
GetTweets(p) ==
    /\ pc[p] \in {"idle"} \cup Ended
    /\ runs < MaxRuns
    /\ \E f \in Feeds :
        /\ feed' = [feed EXCEPT ![p] = f]
        /\ recent_tweet_set' = [recent_tweet_set EXCEPT ![p] = get_tweets(f)]
    /\ prev' = [prev EXCEPT ![p] =
                  IF pc[p] = "idle" THEN NoPrev
                  ELSE [ended |-> pc[p], recent |-> recent_tweet_set[p],
                        new |-> new_tweets[p], succ |-> succ[p],
                        failed |-> failed[p]]]
    /\ cached_tweet_set' = [cached_tweet_set EXCEPT ![p] = {}]
    /\ loaded' = [loaded EXCEPT ![p] = {}]
    /\ new_tweets' = [new_tweets EXCEPT ![p] = {}]
    /\ todo' = [todo EXCEPT ![p] = {}]
    /\ cur' = [cur EXCEPT ![p] = NoLink]
    /\ title' = [title EXCEPT ![p] = "T1"]
    /\ pos' = [pos EXCEPT ![p] = 0]
    /\ flushed' = [flushed EXCEPT ![p] = 0]
    /\ calls' = [calls EXCEPT ![p] = <<>>]
    /\ succ' = [succ EXCEPT ![p] = {}]
    /\ failed' = [failed EXCEPT ![p] = {}]
    /\ raised' = [raised EXCEPT ![p] = "none"]
    /\ crash_pc' = [crash_pc EXCEPT ![p] = "none"]
    /\ pc' = [pc EXCEPT ![p] = "read"]
    /\ runs' = runs + 1
    /\ UNCHANGED << cache_folder, cache_file, pdf_files, everTrue, asserted >>
    /\ UNCHANGED urlVars

\* cached_tweet_set = read_cache(); new_tweets = recent_tweet_set - cached_tweet_set
ReadCache(p) ==
    /\ pc[p] = "read"
    /\ cache_file.kind # "truncated"
    /\ cached_tweet_set' = [cached_tweet_set EXCEPT ![p] = read_cache(cache_file)]
    /\ loaded' = [loaded EXCEPT ![p] = read_cache(cache_file)]
    /\ new_tweets' = [new_tweets EXCEPT ![p] =
                        NewTweets(recent_tweet_set[p], read_cache(cache_file))]
    /\ todo' = [todo EXCEPT ![p] =
                  NewTweets(recent_tweet_set[p], read_cache(cache_file))]
    /\ pc' = [pc EXCEPT ![p] = "loop"]
    /\ UNCHANGED << feed, recent_tweet_set, cur, title, pos, flushed, calls, succ,
                    failed, prev, raised, crash_pc, cache_folder, cache_file,
                    pdf_files, everTrue, asserted, runs >>
    /\ UNCHANGED urlVars

\* a read_cache that takes an unreadable file for no file
ReadCacheCorruptAsEmpty(p) ==
    /\ pc[p] = "read"
    /\ cache_file.kind = "truncated"
    /\ cached_tweet_set' = [cached_tweet_set EXCEPT ![p] = {}]
    /\ loaded' = [loaded EXCEPT ![p] = {}]
    /\ new_tweets' = [new_tweets EXCEPT ![p] = recent_tweet_set[p]]
    /\ todo' = [todo EXCEPT ![p] = recent_tweet_set[p]]
    /\ pc' = [pc EXCEPT ![p] = "loop"]
    /\ UNCHANGED << feed, recent_tweet_set, cur, title, pos, flushed, calls, succ,
                    failed, prev, raised, crash_pc, cache_folder, cache_file,
                    pdf_files, everTrue, asserted, runs >>
    /\ UNCHANGED urlVars

\* pickle.load raises on a file that holds no complete pickle: main ends
ReadCacheCorrupt(p) ==
    /\ pc[p] = "read"
    /\ cache_file.kind = "truncated"
    /\ pc' = [pc EXCEPT ![p] = "aborted"]
    /\ raised' = [raised EXCEPT ![p] = "pickle"]
    /\ UNCHANGED << runVars, prev, crash_pc, cache_folder, cache_file, pdf_files,
                    everTrue, asserted, runs >>
    /\ UNCHANGED urlVars

(* ------------------------- download_arvix_pdf -------------------------- *)
TitleCall(l) == [kind |-> "title", link |-> l, url |-> l]
PdfCall(l) == [kind |-> "pdf", link |-> l, url |-> pdf_dl_link(l)]

\* the body of the PDF of link l, as the chunks the response yields one
\* after the other: chunk i of the body of l is written as l at place i
Body(l) == [i \in 1..NChunks |-> l]

\* a place of a file that no write has filled (zero bytes)
Hole == <<>>

\* the file object f of a download of l puts the chunks from + 1 .. to of its
\* buffer in the file that holds body, at its own offset: over what is there,
\* or past the end, the gap filled with zero bytes
Flush(body, from, to, l) ==
    IF to <= from
    THEN body
    ELSE [i \in 1..(IF Len(body) > to THEN Len(body) ELSE to) |->
            IF i > from /\ i <= to THEN l
            ELSE IF i <= Len(body) THEN body[i] ELSE Hole]

\* the for loop takes the next link l of new_tweets (a set: any order)
Take(p, l) ==
    /\ pc[p] = "loop"
    /\ l \in todo[p]
    /\ todo' = [todo EXCEPT ![p] = todo[p] \ {l}]
    /\ cur' = [cur EXCEPT ![p] = l]

\* an exception that nothing catches ends main; save_cache is not reached
Raise(p, l, exception) ==
    /\ pc' = [pc EXCEPT ![p] = "aborted"]
    /\ raised' = [raised EXCEPT ![p] = exception]
    /\ asserted' = (asserted \/ exception = "assert")
    /\ failed' = [failed EXCEPT ![p] = failed[p] \cup {l}]

\* get_arvix_title: assert "abs" in arvix_link fails
ResolveAssert(p) ==
    \E l \in todo[p] :
        /\ Take(p, l)
        /\ ~Contains(l, S_abs)
        /\ Raise(p, l, "assert")
        /\ UNCHANGED << feed, recent_tweet_set, cached_tweet_set, new_tweets, title,
                        pos, flushed, calls, loaded, succ, prev, crash_pc,
                        cache_folder, cache_file, pdf_files, everTrue, runs >>
        /\ UNCHANGED urlVars

\* get_arvix_title: the assertion holds and requests.get(arvix_link) is
\* called; the process waits for the answer
TitleRequest(p) ==
    \E l \in todo[p] :
        /\ Take(p, l)
        /\ Contains(l, S_abs)
        /\ calls' = [calls EXCEPT ![p] = Append(calls[p], TitleCall(l))]
        /\ pc' = [pc EXCEPT ![p] = "resolve"]
        /\ UNCHANGED << feed, recent_tweet_set, cached_tweet_set, new_tweets, title,
                        pos, flushed, loaded, succ, failed, prev, raised, crash_pc,
                        cache_folder, cache_file, pdf_files, everTrue, asserted, runs >>
        /\ UNCHANGED urlVars

\* a failure of the title request that is swallowed: the download goes on
ResolveRaiseGoesOn(p) ==
    /\ pc[p] = "resolve"
    /\ calls' = [calls EXCEPT ![p] = Append(calls[p], PdfCall(cur[p]))]
    /\ raised' = [raised EXCEPT ![p] = "title_request"]
    /\ failed' = [failed EXCEPT ![p] = failed[p] \cup {cur[p]}]
    /\ pc' = [pc EXCEPT ![p] = "download"]
    /\ UNCHANGED << feed, recent_tweet_set, cached_tweet_set, new_tweets, todo, cur,
                    title, pos, flushed, loaded, succ, prev, crash_pc, cache_folder,
                    cache_file, pdf_files, everTrue, asserted, runs >>
    /\ UNCHANGED urlVars

\* get_arvix_title: requests.get(arvix_link) raises (the page is unreachable)
ResolveRaise(p) ==
    /\ pc[p] = "resolve"
    /\ Raise(p, cur[p], "title_request")
    /\ UNCHANGED << feed, recent_tweet_set, cached_tweet_set, new_tweets, todo, cur,
                    title, pos, flushed, calls, loaded, succ, prev, crash_pc,
                    cache_folder, cache_file, pdf_files, everTrue, runs >>
    /\ UNCHANGED urlVars

\* get_arvix_title: the page has no title element, soup.find("title") is None
\* and .text raises
ResolveNoTitle(p) ==
    /\ pc[p] = "resolve"
    /\ Raise(p, cur[p], "no_title")
    /\ UNCHANGED << feed, recent_tweet_set, cached_tweet_set, new_tweets, todo, cur,
                    title, pos, flushed, calls, loaded, succ, prev, crash_pc,
                    cache_folder, cache_file, pdf_files, everTrue, runs >>
    /\ UNCHANGED urlVars

\* get_arvix_title returns the title t of the page; download_arvix_pdf makes
\* pdf_file_path and pdf_dl_link and calls requests.get(pdf_dl_link,
\* stream=True); the process waits for the answer
ResolveOk(p) ==
    \E t \in Titles :
        /\ pc[p] = "resolve"
        /\ title' = [title EXCEPT ![p] = t]
        /\ calls' = [calls EXCEPT ![p] = Append(calls[p], PdfCall(cur[p]))]
        /\ pc' = [pc EXCEPT ![p] = "download"]
        /\ UNCHANGED << feed, recent_tweet_set, cached_tweet_set, new_tweets, todo,
                        cur, pos, flushed, loaded, succ, failed, prev, raised, crash_pc,
                        cache_folder, cache_file, pdf_files, everTrue, asserted, runs >>
        /\ UNCHANGED urlVars

\* requests.get(pdf_dl_link, stream=True) raises
DownloadRaise(p) ==
    /\ pc[p] = "download"
    /\ Raise(p, cur[p], "pdf_request")
    /\ UNCHANGED << feed, recent_tweet_set, cached_tweet_set, new_tweets, todo, cur,
                    title, pos, flushed, calls, loaded, succ, prev, crash_pc,
                    cache_folder, cache_file, pdf_files, everTrue, runs >>
    /\ UNCHANGED urlVars

\* response.status_code != 200: download_arvix_pdf returns False,
\* main prints the error and goes on
DownloadNon200(p) ==
    /\ pc[p] = "download"
    /\ failed' = [failed EXCEPT ![p] = failed[p] \cup {cur[p]}]
    /\ pc' = [pc EXCEPT ![p] = "loop"]
    /\ UNCHANGED << feed, recent_tweet_set, cached_tweet_set, new_tweets, todo, cur,
                    title, pos, flushed, calls, loaded, succ, prev, raised, crash_pc,
                    cache_folder, cache_file, pdf_files, everTrue, asserted, runs >>
    /\ UNCHANGED urlVars

\* status 200 and open(pdf_file_path, "wb") raises (the pdf folder is not
\* there, or the title holds a "/"): no file is made, the exception ends main
DownloadOpenRaise(p) ==
    /\ pc[p] = "download"
    /\ Raise(p, cur[p], "open")
    /\ UNCHANGED << feed, recent_tweet_set, cached_tweet_set, new_tweets, todo, cur,
                    title, pos, flushed, calls, loaded, succ, prev, crash_pc,
                    cache_folder, cache_file, pdf_files, everTrue, runs >>
    /\ UNCHANGED urlVars

\* status 200: open(pdf_file_path, "wb") makes the file, or empties the one
\* that is there; the process waits for the body
DownloadOpen(p) ==
    /\ pc[p] = "download"
    /\ pdf_files' = [pdf_files EXCEPT ![title[p]] = File(<<>>)]
    /\ pos' = [pos EXCEPT ![p] = 0]
    /\ flushed' = [flushed EXCEPT ![p] = 0]
    /\ pc' = [pc EXCEPT ![p] = "stream"]
    /\ UNCHANGED << feed, recent_tweet_set, cached_tweet_set, new_tweets, todo, cur,
                    title, calls, loaded, succ, failed, prev, raised, crash_pc,
                    cache_folder, cache_file, everTrue, asserted, runs >>
    /\ UNCHANGED urlVars

\* the response yields a chunk and f.write(chunk) takes it with at most one
\* write to the file: the chunk stays in the buffer of f (n = flushed), or the
\* buffer is put in the file and the chunk stays in the buffer (n = pos), or
\* the buffer is empty and the chunk is put in the file (n = pos + 1), as the
\* sizes of the chunks and of the buffer have it; the process waits for what
\* follows
DownloadWrite(p) ==
    /\ pc[p] = "stream"
    /\ pos[p] < NChunks
    /\ \E n \in {flushed[p], pos[p]} \cup
                  (IF flushed[p] = pos[p] THEN {pos[p] + 1} ELSE {}) :
        /\ pdf_files' = [pdf_files EXCEPT ![title[p]] =
                           File(Flush(pdf_files[title[p]].body, flushed[p], n, cur[p]))]
        /\ flushed' = [flushed EXCEPT ![p] = n]
    /\ pos' = [pos EXCEPT ![p] = pos[p] + 1]
    /\ UNCHANGED << pc, feed, recent_tweet_set, cached_tweet_set, new_tweets, todo,
                    cur, title, calls, loaded, succ, failed, prev, raised, crash_pc,
                    cache_folder, cache_file, everTrue, asserted, runs >>
    /\ UNCHANGED urlVars

\* the response yields a chunk too large for the buffer while the buffer
\* holds chunks: f.write(chunk) puts the buffer in the file, the write of the
\* chunk itself is still to come
DownloadWriteFlush(p) ==
    /\ pc[p] = "stream"
    /\ pos[p] < NChunks
    /\ flushed[p] < pos[p]
    /\ pdf_files' = [pdf_files EXCEPT ![title[p]] =
                       File(Flush(pdf_files[title[p]].body, flushed[p], pos[p], cur[p]))]
    /\ flushed' = [flushed EXCEPT ![p] = pos[p]]
    /\ pos' = [pos EXCEPT ![p] = pos[p] + 1]
    /\ pc' = [pc EXCEPT ![p] = "write"]
    /\ UNCHANGED << feed, recent_tweet_set, cached_tweet_set, new_tweets, todo, cur,
                    title, calls, loaded, succ, failed, prev, raised, crash_pc,
                    cache_folder, cache_file, everTrue, asserted, runs >>
    /\ UNCHANGED urlVars

\* f.write(chunk), second write: the chunk is put in the file; the process
\* waits for what follows
DownloadWriteChunk(p) ==
    /\ pc[p] = "write"
    /\ pdf_files' = [pdf_files EXCEPT ![title[p]] =
                       File(Flush(pdf_files[title[p]].body, flushed[p], pos[p], cur[p]))]
    /\ flushed' = [flushed EXCEPT ![p] = pos[p]]
    /\ pc' = [pc EXCEPT ![p] = "stream"]
    /\ UNCHANGED << feed, recent_tweet_set, cached_tweet_set, new_tweets, todo, cur,
                    title, pos, calls, loaded, succ, failed, prev, raised, crash_pc,
                    cache_folder, cache_file, everTrue, asserted, runs >>
    /\ UNCHANGED urlVars

\* the stream breaks while the process waits for a chunk or for the end of
\* the body: the with block closes the file, which puts the buffer in it,
\* and the exception ends main
DownloadStreamFail(p) ==
    /\ pc[p] = "stream"
    /\ pdf_files' = [pdf_files EXCEPT ![title[p]] =
                       File(Flush(pdf_files[title[p]].body, flushed[p], pos[p], cur[p]))]
    /\ flushed' = [flushed EXCEPT ![p] = pos[p]]
    /\ Raise(p, cur[p], "stream")
    /\ UNCHANGED << feed, recent_tweet_set, cached_tweet_set, new_tweets, todo, cur,
                    title, pos, calls, loaded, succ, prev, crash_pc, cache_folder,
                    cache_file, everTrue, runs >>
    /\ UNCHANGED urlVars

\* a download that writes the record after every success
DownloadOkSaves(p) ==
    /\ pc[p] = "stream"
    /\ pos[p] = NChunks
    /\ pdf_files' = [pdf_files EXCEPT ![title[p]] =
                       File(Flush(pdf_files[title[p]].body, flushed[p], pos[p], cur[p]))]
    /\ flushed' = [flushed EXCEPT ![p] = pos[p]]
    /\ cached_tweet_set' = [cached_tweet_set EXCEPT ![p] =
                              cached_tweet_set[p] \cup {cur[p]}]
    /\ cache_file' = Record(cached_tweet_set[p] \cup {cur[p]})
    /\ succ' = [succ EXCEPT ![p] = succ[p] \cup {cur[p]}]
    /\ everTrue' = everTrue \cup {cur[p]}
    /\ pc' = [pc EXCEPT ![p] = "loop"]
    /\ UNCHANGED << feed, recent_tweet_set, new_tweets, todo, cur, title, pos, calls,
                    loaded, failed, prev, raised, crash_pc, cache_folder, asserted,
                    runs >>
    /\ UNCHANGED urlVars

\* every chunk has been given to f.write and the stream ends: the with block
\* closes the file, which puts the buffer in it, download_arvix_pdf returns
\* True and main adds the link to cached_tweet_set
DownloadOk(p) ==
    /\ pc[p] = "stream"
    /\ pos[p] = NChunks
    /\ pdf_files' = [pdf_files EXCEPT ![title[p]] =
                       File(Flush(pdf_files[title[p]].body, flushed[p], pos[p], cur[p]))]
    /\ flushed' = [flushed EXCEPT ![p] = pos[p]]
    /\ cached_tweet_set' = [cached_tweet_set EXCEPT ![p] =
                              cached_tweet_set[p] \cup {cur[p]}]
    /\ succ' = [succ EXCEPT ![p] = succ[p] \cup {cur[p]}]
    /\ everTrue' = everTrue \cup {cur[p]}
    /\ pc' = [pc EXCEPT ![p] = "loop"]
    /\ UNCHANGED << feed, recent_tweet_set, new_tweets, todo, cur, title, pos, calls,
                    loaded, failed, prev, raised, crash_pc, cache_folder, cache_file,
                    asserted, runs >>
    /\ UNCHANGED urlVars

(* ------------------------------ save_cache ----------------------------- *)
\* what pickle.dump(processed_tweets, open(CACHE_PATH, "wb")) leaves on disk
\* once the set is written and flushed
save_cache(processed_tweets) == Record(processed_tweets)

\* the loop is over: save_cache looks whether CACHE_FOLDER is there
SaveExists(p) ==
    /\ pc[p] = "loop"
    /\ todo[p] = {}
    /\ pc' = [pc EXCEPT ![p] = IF cache_folder THEN "open" ELSE "makedirs"]
    /\ UNCHANGED << runVars, prev, raised, crash_pc, cache_folder, cache_file,
                    pdf_files, everTrue, asserted, runs >>
    /\ UNCHANGED urlVars

\* os.makedirs(CACHE_FOLDER) makes the directory
SaveMakedirs(p) ==
    /\ pc[p] = "makedirs"
    /\ ~cache_folder
    /\ cache_folder' = TRUE
    /\ pc' = [pc EXCEPT ![p] = "open"]
    /\ UNCHANGED << runVars, prev, raised, crash_pc, cache_file, pdf_files,
                    everTrue, asserted, runs >>
    /\ UNCHANGED urlVars

\* os.makedirs(CACHE_FOLDER) finds the directory that another process has
\* made meanwhile and raises FileExistsError: main ends, nothing is written
SaveMakedirsRaise(p) ==
    /\ pc[p] = "makedirs"
    /\ cache_folder
    /\ pc' = [pc EXCEPT ![p] = "aborted"]
    /\ raised' = [raised EXCEPT ![p] = "makedirs"]
    /\ UNCHANGED << runVars, prev, crash_pc, cache_folder, cache_file, pdf_files,
                    everTrue, asserted, runs >>
    /\ UNCHANGED urlVars

\* open(CACHE_PATH, "wb") makes the file or empties it
SaveOpen(p) ==
    /\ pc[p] = "open"
    /\ cache_file' = Truncated
    /\ pc' = [pc EXCEPT ![p] = "saving"]
    /\ UNCHANGED << runVars, prev, raised, crash_pc, cache_folder, pdf_files,
                    everTrue, asserted, runs >>
    /\ UNCHANGED urlVars

\* pickle.dump writes the set and the file is flushed; main returns
SaveDump(p) ==
    /\ pc[p] = "saving"
    /\ cache_file' = save_cache(cached_tweet_set[p])
    /\ pc' = [pc EXCEPT ![p] = "done"]
    /\ UNCHANGED << runVars, prev, raised, crash_pc, cache_folder, pdf_files,
                    everTrue, asserted, runs >>
    /\ UNCHANGED urlVars

\* the process is killed where it stands; what is in the files stays, what
\* is in the buffer of an open file is lost
Crash(p) ==
    /\ pc[p] \in {"read", "loop", "resolve", "download", "stream", "write",
                  "makedirs", "open", "saving"}
    /\ crash_pc' = [crash_pc EXCEPT ![p] = pc[p]]
    /\ pc' = [pc EXCEPT ![p] = "crashed"]
    /\ UNCHANGED << runVars, prev, raised, cache_folder, cache_file, pdf_files,
                    everTrue, asserted, runs >>
    /\ UNCHANGED urlVars

(* --------------------------- specifications ---------------------------- *)
Loop(p) ==
    \/ ResolveAssert(p)
    \/ TitleRequest(p)
    \/ ResolveRaise(p)
    \/ ResolveNoTitle(p)
    \/ ResolveOk(p)
    \/ DownloadRaise(p)
    \/ DownloadNon200(p)
    \/ DownloadOpenRaise(p)
    \/ DownloadOpen(p)
    \/ DownloadWrite(p)
    \/ DownloadWriteFlush(p)
    \/ DownloadWriteChunk(p)
    \/ DownloadStreamFail(p)
    \/ DownloadOk(p)

\* save_cache, when no other process makes CACHE_FOLDER meanwhile
Save(p) ==
    \/ SaveExists(p)
    \/ SaveMakedirs(p)
    \/ SaveOpen(p)
    \/ SaveDump(p)

\* runs of main one after the other
Next ==
    \/ GetTweets(1)
    \/ ReadCache(1)
    \/ Loop(1)
    \/ Save(1)

Spec == Init /\ [][Next]_vars

\* runs of main one after the other, any of which may be killed at any point
NextCrash ==
    \/ GetTweets(1)
    \/ ReadCache(1)
    \/ ReadCacheCorrupt(1)
    \/ Loop(1)
    \/ Save(1)
    \/ Crash(1)

SpecCrash == Init /\ [][NextCrash]_vars

\* two processes running main against the same CACHE_PATH and the same
\* pdf folder, their steps interleaved
NextConc ==
    \E p \in Procs :
        \/ GetTweets(p) /\ Cardinality(feed'[p]) <= MaxConcTweets
        \/ ReadCache(p)
        \/ ReadCacheCorrupt(p)
        \/ Loop(p)
        \/ Save(p)
        \/ SaveMakedirsRaise(p)

SpecConc == Init /\ [][NextConc]_vars

(* --------------------- the rewrites of a single url --------------------- *)
\* the pieces an expanded url is made of
Chunks == { S_arxiv, S_pdf, S_dotpdf, S_abs, <<".">>, <<"p">>, <<"d", "f">>, <<"/">> }

RECURSIVE Concat(_)
Concat(cs) == IF cs = <<>> THEN <<>> ELSE Head(cs) \o Concat(Tail(cs))

\* the expanded urls of at most MaxChunks pieces
Urls == { Concat(cs) : cs \in UNION { [1..n -> Chunks] : n \in 0..MaxChunks } }

UrlInit == MainInit /\ url \in Urls /\ keys = {} /\ rekeys = {} /\ dls = {}
             /\ backs = {} /\ upc = "url"

\* parse_urls on a tweet whose only expanded url is url
Extract ==
    /\ upc = "url"
    /\ keys' = parse_urls({url})
    /\ upc' = "keys"
    /\ UNCHANGED << mainVars, url, rekeys, dls, backs >>

\* parse_urls on tweets whose expanded urls are the links of keys
Reextract ==
    /\ upc = "keys"
    /\ rekeys' = UNION { parse_urls({k}) : k \in keys }
    /\ upc' = "rekeys"
    /\ UNCHANGED << mainVars, url, keys, dls, backs >>

\* download_arvix_pdf, line 111, on the links of keys
Rewrite ==
    /\ upc = "rekeys"
    /\ dls' = { pdf_dl_link(k) : k \in keys }
    /\ upc' = "dls"
    /\ UNCHANGED << mainVars, url, keys, rekeys, backs >>

\* parse_urls on tweets whose expanded urls are the urls of dls
ExtractBack ==
    /\ upc = "dls"
    /\ backs' = UNION { parse_urls({d}) : d \in dls }
    /\ upc' = "backs"
    /\ UNCHANGED << mainVars, url, keys, rekeys, dls >>

NextUrl ==
    \/ Extract
    \/ Reextract
    \/ Rewrite
    \/ ExtractBack

SpecUrl == UrlInit /\ [][NextUrl]_vars

(* ------------------------------- claims -------------------------------- *)
\* the set of links the file at CACHE_PATH records
OnDisk == IF cache_file.kind = "record" THEN cache_file.content ELSE {}

\* the links a run has issued a request for
Requested(p) == { calls[p][i].link : i \in DOMAIN calls[p] }

\* the PDF requests of a run for link l
PdfRequests(p, l) == { i \in DOMAIN calls[p] : calls[p][i] = PdfCall(l) }

AfterRun(p) == pc[p] \in {"done", "aborted"}

\* the places of a run inside the for loop of main
InLoop == {"loop", "resolve", "download", "stream", "write"}

\* the places of a run inside save_cache
InSave == {"makedirs", "open", "saving"}

\* the file that a download of link l makes when nothing else writes to it
Artifact(l) == File(Body(l))

\* a file that is there and is the whole body of no link
Partial(f) ==
    /\ f.state = "file"
    /\ \/ Len(f.body) # NChunks
       \/ f.body[1] = Hole
       \/ f # Artifact(f.body[1])

\* C1: a link is in the ProcessedSet (cached_tweet_set in memory, the record
\* on disk once the run is over) if and only if download_arvix_pdf has
\* returned True for it, and a run takes no link out of the record it loaded.
\* Runs that the assertion of get_arvix_title ended are left aside.
C1_ProcessedIffSucceeded ==
    ~asserted =>
        \A p \in Procs :
            /\ pc[p] \in InLoop => cached_tweet_set[p] = everTrue
            /\ AfterRun(p) => OnDisk = everTrue
            /\ AfterRun(p) => loaded[p] \subseteq OnDisk

\* C2: a run that follows a run which ended with no failure, on the same
\* candidates, finds no new link and issues no request; and a run without
\* failure requests the file of each link exactly once.
C2_Idempotence ==
    \A p \in Procs :
        /\ ( /\ pc[p] \in InLoop \cup InSave \cup {"done", "aborted"}
             /\ prev[p].ended = "done"
             /\ prev[p].failed = {}
             /\ prev[p].recent = recent_tweet_set[p] )
           => (new_tweets[p] = {} /\ calls[p] = <<>>)
        /\ (pc[p] = "done" /\ failed[p] = {})
           => \A l \in new_tweets[p] : Cardinality(PdfRequests(p, l)) = 1

C2_Witness ==
    /\ pc[1] = "done"
    /\ prev[1].ended = "done"
    /\ prev[1].failed = {}
    /\ prev[1].succ # {}
    /\ prev[1].recent = recent_tweet_set[1]
    /\ calls[1] = <<>>

\* C3: a run with two new links, A downloaded and B failed (in any way but
\* the assertion), leaves the record loaded + A on disk; the next run on the
\* same candidates requests only B.
C3_PartialFailureRetry ==
    ~asserted =>
        \A p \in Procs :
            /\ ( /\ AfterRun(p)
                 /\ Cardinality(new_tweets[p]) = 2
                 /\ Cardinality(succ[p]) = 1
                 /\ Cardinality(failed[p]) = 1 )
               => cache_file = Record(loaded[p] \cup succ[p])
            /\ ( /\ AfterRun(p)
                 /\ prev[p].ended \in {"done", "aborted"}
                 /\ Cardinality(prev[p].new) = 2
                 /\ Cardinality(prev[p].succ) = 1
                 /\ Cardinality(prev[p].failed) = 1
                 /\ prev[p].recent = recent_tweet_set[p] )
               => Requested(p) \subseteq prev[p].failed

\* the failures of an attempt at the title stage or the download stage
StageFailures == {"none", "title_request", "no_title", "pdf_request", "stream"}

\* C4: a link that fails at the title stage or the download stage does not
\* end the run: when the run is over, every new link has been attempted.
C4_FailureNeverAborts ==
    \A p \in Procs :
        (AfterRun(p) /\ raised[p] \in StageFailures)
            => new_tweets[p] \subseteq (succ[p] \cup failed[p])

\* C5: after a run in which some links were downloaded and others failed at
\* the title stage or the download stage, the record on disk holds every link
\* downloaded in that run.
C5_SuccessesPersisted ==
    \A p \in Procs :
        (AfterRun(p) /\ raised[p] \in StageFailures /\ succ[p] # {} /\ failed[p] # {})
            => (cache_file.kind = "record" /\ succ[p] \subseteq cache_file.content)

\* C6: a process killed inside save_cache leaves at CACHE_PATH the complete
\* previous record (or no file) or the complete new record.
C6_SaveAtomic ==
    \A p \in Procs :
        (pc[p] = "crashed" /\ crash_pc[p] \in InSave)
            => cache_file \in {Absent, Record(loaded[p]), Record(cached_tweet_set[p])}

\* C7: a run issues no request, for the title or for the file, for a link
\* that read_cache returned to it.
C7_NoCallForProcessed ==
    \A p \in Procs : Requested(p) \cap loaded[p] = {}

C7_Witness ==
    /\ pc[1] = "done"
    /\ loaded[1] \cap recent_tweet_set[1] # {}
    /\ calls[1] # <<>>

\* C8: when two runs against the same CACHE_PATH are both over, the record
\* holds every link either of them downloaded.
C8_NoLostUpdate ==
    (\A p \in Procs : pc[p] = "done")
        => \A p \in Procs : succ[p] \subseteq OnDisk

\* C9: a download that the broken stream ended leaves no partly written
\* file at <title>.pdf.
C9_NoPartialArtifact ==
    \A p \in Procs :
        (pc[p] = "aborted" /\ raised[p] = "stream")
            => ~Partial(pdf_files[title[p]])

\* the papers of the feed: the direct-file url, the abstract-page url, the id
Papers == { [pdf |-> U_pdf1, abs |-> U_abs1, id |-> <<"1", ".", "2">>],
            [pdf |-> U_pdf2, abs |-> U_abs2, id |-> <<"3">>] }

BothForms(p, paper) ==
    \E t1, t2 \in feed[p] : t1 # t2 /\ paper.pdf \in t1 /\ paper.abs \in t2

\* C10: when one liked tweet links to .../pdf/<id>.pdf and another to
\* .../abs/<id>, get_tweets yields one candidate for the paper and the run
\* requests its file at most once.
C10_NormalizationEquivalence ==
    \A p \in Procs : \A paper \in Papers :
        (pc[p] # "idle" /\ BothForms(p, paper))
            => /\ Cardinality({ k \in recent_tweet_set[p] : Contains(k, paper.id) }) = 1
               /\ Cardinality({ i \in DOMAIN calls[p] :
                                  /\ calls[p][i].kind = "pdf"
                                  /\ Contains(calls[p][i].link, paper.id) }) <= 1

C10_Witness ==
    /\ pc[1] = "done"
    /\ \E paper \in Papers :
        /\ BothForms(1, paper)
        /\ PdfRequests(1, paper.abs) # {}
        /\ paper.abs \in succ[1]

\* C11: for every url that contains "arxiv", the link parse_urls makes of it
\* is made into itself by parse_urls again: it still contains "arxiv" and the
\* rewrite leaves it as it is.
C11_NormalizeIdempotent ==
    (upc \in {"rekeys", "dls", "backs"} /\ Contains(url, S_arxiv))
        => /\ Cardinality(keys) = 1
           /\ \A k \in keys : Contains(k, S_arxiv)
           /\ rekeys = keys

C11_Witness ==
    /\ upc = "rekeys"
    /\ Contains(url, S_dotpdf)
    /\ Contains(url, S_arxiv)
    /\ keys # {url}
    /\ rekeys = keys

\* C12: every link that main hands to download_arvix_pdf contains "abs", and
\* the assertion of get_arvix_title never fails.
C12_AbstractFormPrecondition ==
    \A p \in Procs :
        /\ cur[p] # NoLink => Contains(cur[p], S_abs)
        /\ raised[p] # "assert"

\* a liked tweet none of whose expanded urls contains "arxiv"
NoMatch(tweet) == \A u \in tweet : ~Contains(u, S_arxiv)

\* C13: a liked tweet with no url that contains "arxiv" gives no candidate,
\* gets no request, and the candidates of the run are those of the other
\* tweets of the feed.
C13_NoMatchInert ==
    \A p \in Procs : \A t \in feed[p] :
        (pc[p] # "idle" /\ NoMatch(t))
            => /\ parse_urls(t) = {}
               /\ recent_tweet_set[p] = get_tweets(feed[p] \ {t})
               /\ \A i \in DOMAIN calls[p] :
                    /\ calls[p][i].link \notin { Normalize(u) : u \in t }
                    /\ calls[p][i].link \in get_tweets(feed[p] \ {t})

C13_Witness ==
    /\ pc[1] = "done"
    /\ \E t \in feed[1] : NoMatch(t)
    /\ succ[1] # {}

\* C14 as stated: a run that finds an unreadable file at CACHE_PATH ends in
\* an error, with no request made and the file left as it is; and
\* read_cache returns the empty set only when there is no record at
\* CACHE_PATH.
C14_EmptyOnlyWhenAbsent ==
    \A p \in Procs :
        /\ raised[p] = "pickle"
              => /\ pc[p] = "aborted"
                 /\ calls[p] = <<>>
                 /\ succ[p] = {}
                 /\ cache_file.kind = "truncated"
        /\ (pc[p] = "loop" /\ loaded[p] = {}) => cache_file.kind = "absent"

\* C14, amended: a run that finds an unreadable file at CACHE_PATH ends in an
\* error, with no request made and the file left as it is; read_cache
\* returns the empty set of line 37 only when there is no file, and the
\* content of the record when there is one (the empty set when the record
\* holds the empty set).
C14_CorruptionFatal ==
    /\ [](\A p \in Procs :
            raised[p] = "pickle"
                => /\ pc[p] = "aborted"
                   /\ calls[p] = <<>>
                   /\ succ[p] = {}
                   /\ cache_file.kind = "truncated")
    /\ [][\A p \in Procs :
            /\ (pc[p] = "read" /\ cache_file.kind = "truncated" /\ pc'[p] # "read")
                 => /\ pc'[p] \in {"aborted", "crashed"}
                    /\ cache_file' = cache_file
                    /\ calls'[p] = <<>>
            /\ (pc[p] = "read" /\ pc'[p] = "loop")
                 => \/ cache_file.kind = "absent" /\ loaded'[p] = {}
                    \/ cache_file.kind = "record" /\ loaded'[p] = cache_file.content
        ]_vars

C14_Witness ==
    /\ raised[1] = "pickle"
    /\ pc[1] = "aborted"
    /\ cache_file.kind = "truncated"
    /\ recent_tweet_set[1] # {}

\* C15: every link that has been downloaded has its own complete file
\* <title>.pdf: no download writes over the file of another link. (Files
\* that a broken stream left, and states in which a download is receiving
\* its body, are set aside.)
C15_OneArtifactPerLink ==
    ( /\ \A t \in Titles : ~Partial(pdf_files[t])
      /\ \A p \in Procs : pc[p] \notin {"stream", "write"} )
        => \A l \in everTrue \cup OnDisk :
             \E t \in Titles : pdf_files[t] = Artifact(l)

\* C16: the request for the file of a link comes right after the title
\* request for the same link has given a title; a link whose resolution
\* failed gets no request for its file; the requests of one link are over
\* before those of the next begin.
C16_ResolveThenDownload ==
    \A p \in Procs :
        /\ \A i \in DOMAIN calls[p] :
              calls[p][i].kind = "pdf"
                  => (i > 1 /\ calls[p][i - 1] = TitleCall(calls[p][i].link))
        /\ \A i \in DOMAIN calls[p] :
              (calls[p][i].kind = "title" /\ i < Len(calls[p]))
                  => calls[p][i + 1] = PdfCall(calls[p][i].link)
        /\ pc[p] = "resolve"
              => (calls[p] # <<>> /\ calls[p][Len(calls[p])] = TitleCall(cur[p]))
        /\ pc[p] \in {"download", "stream", "write"}
              => (calls[p] # <<>> /\ calls[p][Len(calls[p])] = PdfCall(cur[p]))
        /\ raised[p] \in {"assert", "title_request", "no_title"}
              => (pc[p] = "aborted" /\ PdfRequests(p, cur[p]) = {})

C16_Witness ==
    /\ Len(calls[1]) = 3
    /\ succ[1] # {}
    /\ raised[1] = "no_title"

\* C17: no step of a run before save_cache changes the file at CACHE_PATH,
\* so a run stopped there leaves the record it loaded; the links it had
\* downloaded are new links again for the next run on the same candidates.
C17_InterruptKeepsRecord ==
    /\ [][\A p \in Procs :
            ( /\ pc[p] \in InLoop \cup {"read"}
              /\ pc'[p] \in InLoop \cup {"read", "crashed", "aborted"} )
                => cache_file' = cache_file
        ]_vars
    /\ [](\A p \in Procs :
            /\ (pc[p] = "crashed" /\ crash_pc[p] \in InLoop)
                 => (cache_file.kind # "truncated" /\ OnDisk = loaded[p])
            /\ ( /\ prev[p].ended \in {"crashed", "aborted"}
                 /\ prev[p].recent = recent_tweet_set[p]
                 /\ pc[p] \in InLoop \cup InSave \cup {"done"} )
                 => prev[p].succ \subseteq new_tweets[p])

C17_Witness ==
    /\ prev[1].ended = "crashed"
    /\ prev[1].succ # {}
    /\ prev[1].recent = recent_tweet_set[1]
    /\ pc[1] = "loop"
    /\ prev[1].succ \subseteq new_tweets[1]

\* the places where two strings of one length differ lie within one marker
OneSegment(k, d) ==
    /\ Len(k) = Len(d)
    /\ \E i \in 1..Len(k) + 1 :
         \A j \in 1..Len(k) : k[j] # d[j] => j \in i..(i + Len(S_abs) - 1)

\* C18: for every link k that parse_urls makes, parse_urls makes k again of
\* the url that the downloader makes of k, and that url differs from k in
\* the one marker only.
C18_RewriteInverse ==
    (upc = "backs" /\ Contains(url, S_arxiv))
        => /\ backs = keys
           /\ \A k \in keys : OneSegment(k, pdf_dl_link(k))

\* the title requests of a run for link l
TitleRequests(p, l) == { i \in DOMAIN calls[p] : calls[p][i] = TitleCall(l) }

\* C19: new_tweets is fixed when the loop starts; a run whose network calls
\* have all returned ends with every new link attempted exactly once, each
\* either downloaded or failed, and with save_cache executed after the last
\* attempt.
C19_RunCompletes ==
    \A p \in Procs :
        /\ pc[p] \in InLoop \cup InSave \cup {"done", "aborted"}
              => (new_tweets[p] = recent_tweet_set[p] \ loaded[p]
                    /\ todo[p] \subseteq new_tweets[p])
        /\ (AfterRun(p) /\ raised[p] \in {"none", "no_title"})
              => /\ pc[p] = "done"
                 /\ \A l \in new_tweets[p] :
                      /\ Cardinality(TitleRequests(p, l)) = 1
                      /\ (l \in succ[p]) # (l \in failed[p])
                 /\ cache_file = Record(cached_tweet_set[p])

\* C20: on the same candidates as the run before, the links that failed
\* there are out of the record, are new links again and are attempted again;
\* a run in which every new link is downloaded leaves every candidate in the
\* record. (Runs that the assertion of get_arvix_title ended are left aside.)
C20_RetryConverges ==
    ~asserted =>
        \A p \in Procs :
            /\ ( /\ prev[p].ended \in {"done", "aborted"}
                 /\ prev[p].recent = recent_tweet_set[p]
                 /\ pc[p] \in InLoop \cup InSave \cup {"done", "aborted"} )
               => /\ prev[p].failed \cap loaded[p] = {}
                  /\ prev[p].failed \subseteq new_tweets[p]
                  /\ AfterRun(p) => prev[p].failed \subseteq Requested(p)
            /\ (AfterRun(p) /\ new_tweets[p] \subseteq succ[p])
               => recent_tweet_set[p] \subseteq OnDisk

====
